---- MODULE Spec2Model ----
(***************************************************************************)
(* Model of the KnowledgeHub retrieval core:                               *)
(*   src/src/backend/lib/api/documents.ts          (uploadDocument)        *)
(*   src/src/backend/lib/api/documentProcessing.ts (processDocument, ...)  *)
(*   src/src/backend/lib/api/chat.ts               (queryChat, ...)        *)
(* Storage (tables documents and document_chunks) is shared state; every   *)
(* await on storage or on a hosted service is a point where another call   *)
(* may run.                                                                *)
(***************************************************************************)
EXTENDS Integers, Sequences, FiniteSets, TLC

(* ------------------------------ bounds -------------------------------- *)
\* number of document ids that can exist
MaxDocs == 3
\* number of concurrent ingestion calls (uploadDocument, processDocument,
\* processDocumentsAutomatically) in the ingestion specification
MaxRuns == 2

Docs == 1..MaxDocs
Runs == 1..MaxRuns

(* --------------------------- program constants ------------------------ *)
\* similarities are compared as percentages: 0.5 and 0.6 in the source
MIN_SIMILARITY_THRESHOLD == 50
HIGH_SIMILARITY_THRESHOLD == 60
MatchThreshold == 50
\* queryChat asks searchSimilarChunks for 10 chunks
SearchLimit == 10
\* the fallback fetch reads at most 200 rows
FetchLimit == 200
\* excerpt length of a citation
ExcerptLen == 150

(* ------------------------------ strings ------------------------------- *)
Min(a, b) == IF a <= b THEN a ELSE b

\* String.prototype.substring(0, n)
Substring0(s, n) == SubSeq(s, 1, Min(n, Len(s)))

\* String.prototype.includes
Includes(s, sub) ==
    \E i \in 1..(Len(s) - Len(sub) + 1) : SubSeq(s, i, i + Len(sub) - 1) = sub

\* String.prototype.startsWith
StartsWith(s, pre) == Len(pre) <= Len(s) /\ SubSeq(s, 1, Len(pre)) = pre

LowerChar(c) ==
    CASE c = "A" -> "a" [] c = "B" -> "b" [] c = "C" -> "c" [] c = "D" -> "d"
      [] c = "E" -> "e" [] c = "F" -> "f" [] c = "G" -> "g" [] c = "H" -> "h"
      [] c = "I" -> "i" [] c = "J" -> "j" [] c = "K" -> "k" [] c = "L" -> "l"
      [] c = "M" -> "m" [] c = "N" -> "n" [] c = "O" -> "o" [] c = "P" -> "p"
      [] c = "Q" -> "q" [] c = "R" -> "r" [] c = "S" -> "s" [] c = "T" -> "t"
      [] c = "U" -> "u" [] c = "V" -> "v" [] c = "W" -> "w" [] c = "X" -> "x"
      [] c = "Y" -> "y" [] c = "Z" -> "z"
      [] c = "Á" -> "á" [] c = "É" -> "é" [] c = "Í" -> "í" [] c = "Ó" -> "ó"
      [] c = "Ú" -> "ú" [] c = "Ñ" -> "ñ"
      [] OTHER -> c

\* String.prototype.toLowerCase
RECURSIVE ToLowerCase(_)
ToLowerCase(s) ==
    IF Len(s) = 0 THEN ""
    ELSE LowerChar(SubSeq(s, 1, 1)) \o ToLowerCase(SubSeq(s, 2, Len(s)))

(* ------------------------------ vectors ------------------------------- *)
RECURSIVE Dot(_, _)
Dot(a, b) == IF Len(a) = 0 THEN 0 ELSE Head(a) * Head(b) + Dot(Tail(a), Tail(b))

\* A similarity is kept exact: the record [n, d] stands for the cosine whose
\* signed square is n / d (d > 0); the order of cosines is the order of n / d.
ZeroSim == [n |-> 0, d |-> 1]

cosineSimilarity(a, b) ==
    IF Len(a) # Len(b) THEN ZeroSim
    ELSE IF Dot(a, a) = 0 \/ Dot(b, b) = 0 THEN ZeroSim
    ELSE LET dp == Dot(a, b)
         IN  [n |-> IF dp >= 0 THEN dp * dp ELSE -(dp * dp),
              d |-> Dot(a, a) * Dot(b, b)]

\* s >= pct / 100
SimGE(s, pct) == s.n >= 0 /\ s.n * 10000 >= pct * pct * s.d
\* s > pct / 100
SimGT(s, pct) == s.n >= 0 /\ s.n * 10000 > pct * pct * s.d
\* s1 > s2
SimGreater(s1, s2) == s1.n * s2.d > s2.n * s1.d
SimLess(s1, s2) == SimGreater(s2, s1)

(* ----------------------- files and the embedding service -------------- *)
\* chunk texts
TxtVacA == "Los empleados tienen veinte dias de vacaciones pagadas por cada ano trabajado. Las vacaciones se solicitan al jefe de area con quince dias de anticipacion y se aprueban por escrito."
TxtVacE == "El periodo de vacaciones no puede acumularse por mas de dos anos."
TxtGasB == "Los gastos de viaje se reembolsan contra factura dentro de treinta dias."
TxtSegD == "Las contrasenas deben cambiarse cada noventa dias sin excepcion alguna."
TxtToc == "Indice 1 2 3"

\* file names a user can upload
FileNames == {"vacaciones.txt", "gastos.md", "seguridad.pdf", "indice.txt", "foto.exe"}
NoFile == ""

\* file_name.split('.').pop()?.toLowerCase()
FileExt(f) ==
    CASE f = "vacaciones.txt" -> "txt"
      [] f = "gastos.md" -> "md"
      [] f = "seguridad.pdf" -> "pdf"
      [] f = "indice.txt" -> "txt"
      [] f = "foto.exe" -> "exe"
      [] OTHER -> ""

SupportedExt(e) == e \in {"txt", "pdf", "md"}

\* the chunks splitIntoChunks(text, 1200, 200) yields for the text of a file
FileChunks(f) ==
    CASE f = "vacaciones.txt" -> <<TxtToc, TxtVacA, TxtVacE>>
      [] f = "gastos.md" -> <<TxtGasB>>
      [] f = "seguridad.pdf" -> <<TxtSegD>>
      [] f = "indice.txt" -> <<TxtToc>>
      [] OTHER -> <<>>

\* the chunks the structural filter rejects
IsStructural(c) == c = TxtToc

NotStructural(c) == ~IsStructural(c)

\* a variant without the structural filter
SemanticChunksUnfiltered(f) == FileChunks(f)

\* chunks.filter(chunk => !isLikelyStructuralChunk(chunk))
SemanticChunks(f) == SelectSeq(FileChunks(f), NotStructural)

\* questions a user can ask
QHola == "Hola"
QCount == "Cuantos documentos hay"
QHolaCount == "hola, cuantos documentos hay"
QTipos == "que tipos de documentos aceptas en el sistema"
QVac == "cual es la politica de vacaciones de la empresa"
QGas == "como se reembolsan los gastos de viaje"
QSeg == "cada cuanto tiempo debo cambiar mi contrasena"
QNada == "quien gano el mundial de futbol pasado"
Questions == {QHola, QCount, QHolaCount, QTipos, QVac, QGas, QSeg, QNada}

\* the embedding service: deterministic, one vector per text
Embed(t) ==
    CASE t = TxtVacA -> <<4, 3>>
      [] t = TxtVacE -> <<1, 2>>
      [] t = TxtGasB -> <<1, 1>>
      [] t = TxtSegD -> <<3, -7>>
      [] t = TxtToc -> <<1, 0>>
      [] t = QVac -> <<8, -1>>
      [] t = QGas -> <<5, -1>>
      [] t = QSeg -> <<0, 1>>
      [] t = QNada -> <<-1, 0>>
      [] OTHER -> <<1, 0>>

(* ------------------------------- state -------------------------------- *)
VARIABLES
    configured,   \* the OpenAI client exists (API key present at load)
    status,       \* documents.status, "none" when the record does not exist
    file,         \* documents.file_name
    chunks,       \* document_chunks rows
    run,          \* the ingestion calls in flight
    q,            \* the queryChat call in flight
    pure          \* a call of one of the pure functions: its arguments and result

vars == <<configured, status, file, chunks, run, q, pure>>

\* no pure-function call
NoCall == [fn |-> "none"]

Statuses == {"processing", "processed", "error"}

\* a document_chunks row; by tells the inserting call apart (the row id)
Row(d, i, c, r) == [doc |-> d, idx |-> i, content |-> c, emb |-> Embed(c), by |-> r]

ChunksOf(d) == {c \in chunks : c.doc = d}

\* had: the documents that had a chunk row when the call started; calls: the
\* storage and embedding calls it made; progress: the last value it reported
IdleRun ==
    [kind |-> "idle", pc |-> "idle", doc |-> 0, i |-> 0, queue |-> <<>>, ret |-> "none",
     had |-> {}, calls |-> {}, progress |-> 0]

Ret(ok) == IF ok THEN "true" ELSE "false"

\* processDocument returns ok: uploadDocument goes on with the status update
Return(r, ok) ==
    [run EXCEPT ![r].pc = IF run[r].kind = "upload" THEN "status" ELSE "done",
                ![r].i = 0,
                ![r].ret = Ret(ok)]

\* calls start in the order of their slots (the slots are interchangeable)
CanStart(r) == run[r].pc = "idle" /\ \A p \in Runs : p < r => run[p].pc # "idle"

FreeDocs == {d \in Docs : status[d] = "none"}

\* the id the insert gives the new record: ids follow the upload order
NewDoc == CHOOSE d \in FreeDocs : \A e \in FreeDocs : d <= e

(* ---------------------------- uploadDocument -------------------------- *)
\* storage upload and insert of the record, status 'processing'
UploadStart(r, f) ==
    /\ CanStart(r)
    /\ \/ \* uploadError or insertError: thrown, no record is left
          /\ run' = [run EXCEPT ![r] = [IdleRun EXCEPT !.kind = "upload", !.pc = "done", !.ret = "threw"]]
          /\ UNCHANGED <<status, file>>
       \/ /\ FreeDocs # {}
          /\ status' = [status EXCEPT ![NewDoc] = "processing"]
          /\ file' = [file EXCEPT ![NewDoc] = f]
          /\ run' = [run EXCEPT ![r] = [IdleRun EXCEPT !.kind = "upload", !.pc = "check", !.doc = NewDoc]]
    /\ UNCHANGED <<configured, chunks, q, pure>>

\* the status uploadDocument writes after processDocument returned ok
StatusFor(ok) == IF ok THEN "processed" ELSE "error"

\* a variant in which every path reaches the catch block, as a finally would
EntersCatchAlways(ok, applied) == TRUE

\* the catch block runs when the 'processed' update throws, and after the
\* throw that follows the 'error' update
EntersCatch(ok, applied) == ~ok \/ ~applied

\* updateDocumentStatus after processDocument: the update is applied, or it
\* fails and changes nothing
UploadStatus(r) ==
    /\ run[r].pc = "status"
    /\ \E applied \in BOOLEAN :
          LET d == run[r].doc
              ok == run[r].ret = "true"
          IN  /\ status' = IF applied THEN [status EXCEPT ![d] = StatusFor(ok)] ELSE status
              /\ run' = IF EntersCatch(ok, applied)
                        THEN [run EXCEPT ![r].pc = "catch"]
                        ELSE [run EXCEPT ![r].pc = "done", ![r].ret = "returned"]
    /\ UNCHANGED <<configured, file, chunks, q, pure>>

\* the catch block: updateDocumentStatus(id, 'error'), then the rethrow
UploadCatch(r) ==
    /\ run[r].pc = "catch"
    /\ \E applied \in BOOLEAN :
          /\ status' = IF applied THEN [status EXCEPT ![run[r].doc] = "error"] ELSE status
          /\ run' = [run EXCEPT ![r].pc = "done", ![r].ret = "threw"]
    /\ UNCHANGED <<configured, file, chunks, q, pure>>

(* ---------------------------- processDocument ------------------------- *)
\* a direct call of the exported processDocument(documentId)
ProcessStart(r, d) ==
    /\ CanStart(r)
    /\ run' = [run EXCEPT ![r] = [IdleRun EXCEPT !.kind = "process", !.pc = "check", !.doc = d,
                                                 !.had = {e \in {d} : ChunksOf(e) # {}}]]
    /\ UNCHANGED <<configured, status, file, chunks, q, pure>>

\* a variant in which the existence check never finds a chunk
HasChunksNever(d) == FALSE

\* the 'already has chunks?' query of processDocument
HasChunks(d) == ChunksOf(d) # {}

\* processDocument returns ok after reporting progress p and making calls cs
ReturnAt(r, ok, p, cs) ==
    [Return(r, ok) EXCEPT ![r].progress = p, ![r].calls = cs]

\* steps 1-5 of processDocument: guards, existence check, download, split, filter
ProcCheck(r) ==
    /\ run[r].pc = "check"
    /\ LET d == run[r].doc
           f == file[d]
       IN  IF ~configured \/ status[d] = "none"
           THEN run' = Return(r, FALSE)
           ELSE IF HasChunks(d)
           THEN run' = ReturnAt(r, TRUE, 100, {})
           ELSE IF ~SupportedExt(FileExt(f))
           THEN run' = ReturnAt(r, FALSE, 10, {})
           ELSE \/ \* downloadError
                   run' = ReturnAt(r, FALSE, 20, {"download"})
                \/ /\ SemanticChunks(f) = <<>>
                   /\ run' = ReturnAt(r, TRUE, 50, {"download"})
                \/ /\ SemanticChunks(f) # <<>>
                   /\ run' = [run EXCEPT ![r].pc = "embed", ![r].i = 0, ![r].progress = 60,
                                         ![r].calls = {"download"}]
    /\ UNCHANGED <<configured, status, file, chunks, q, pure>>

\* one iteration of the embed-and-insert loop: the row it leaves, if any
ChunkOutcomes == {"saved", "embedFailed", "insertFailed"}

\* a variant that keys the row by the most recent document record, as a
\* module-level 'current document' shared by the calls would
InsertedRowsSharedDoc(r, d, i, outcome) ==
    IF outcome = "saved"
    THEN {[Row(d, i, SemanticChunks(file[d])[i + 1], r) EXCEPT
              !.doc = CHOOSE m \in Docs : status[m] # "none" /\ \A e \in Docs : status[e] # "none" => e <= m]}
    ELSE {}

InsertedRows(r, d, i, outcome) ==
    IF outcome = "saved"
    THEN {Row(d, i, SemanticChunks(file[d])[i + 1], r)}
    ELSE {}

\* a variant in which a failed chunk reaches the catch block around the loop
ChunkLoopAbortsOnFailure(outcome) == outcome # "saved"

\* the try/catch is inside the loop body: no outcome of a chunk ends the loop
ChunkLoopAborts(outcome) == FALSE

\* 60 + Math.floor((i + 1) / totalChunks * 35), exact for the chunk counts here
LoopProgress(i, n) == 60 + ((i + 1) * 35) \div n

\* step 6 of processDocument, one chunk; a chunk whose embedding fails
\* reports no progress
ProcChunk(r) ==
    /\ run[r].pc = "embed"
    /\ \E outcome \in ChunkOutcomes :
          LET d == run[r].doc
              i == run[r].i
              n == Len(SemanticChunks(file[d]))
              cs == run[r].calls \cup {"embedding"}
              p == IF outcome = "embedFailed" THEN run[r].progress ELSE LoopProgress(i, n)
          IN  /\ chunks' = chunks \cup InsertedRows(r, d, i, outcome)
              /\ run' = IF ChunkLoopAborts(outcome)
                        THEN ReturnAt(r, FALSE, p, cs)
                        ELSE IF i + 1 < n
                        THEN [run EXCEPT ![r].i = i + 1, ![r].progress = p, ![r].calls = cs]
                        ELSE ReturnAt(r, TRUE, 100, cs)
    /\ UNCHANGED <<configured, status, file, q, pure>>

(* --------------------- processDocumentsAutomatically ------------------ *)
\* documents in 'uploaded_at' descending order
RECURSIVE DescSeq(_)
DescSeq(S) ==
    IF S = {} THEN <<>>
    ELSE LET m == CHOOSE d \in S : \A e \in S : e <= d
         IN  <<m>> \o DescSeq(S \ {m})

\* steps 1-2: the processed documents that have no chunk row
AutoScan(r) ==
    /\ CanStart(r)
    /\ LET all == {d \in Docs : status[d] = "processed"}
           todo == {d \in all : ~HasChunks(d)}
           had == {d \in Docs : ChunksOf(d) # {}}
           done(ret) == [IdleRun EXCEPT !.kind = "auto", !.pc = "done", !.ret = ret, !.had = had]
       IN  IF ~configured \/ all = {}
           THEN run' = [run EXCEPT ![r] = done("false")]
           ELSE IF todo = {}
           THEN run' = [run EXCEPT ![r] = done("true")]
           ELSE \/ \* docsError
                   run' = [run EXCEPT ![r] = done("false")]
                \/ run' = [run EXCEPT ![r] = [IdleRun EXCEPT !.kind = "auto", !.pc = "autodoc",
                                                             !.queue = DescSeq(todo), !.had = had]]
    /\ UNCHANGED <<configured, status, file, chunks, q, pure>>

\* step 3, per document: locate, download, extract, split, filter
AutoDoc(r) ==
    /\ run[r].pc = "autodoc"
    /\ IF run[r].queue = <<>>
       THEN run' = [run EXCEPT ![r].pc = "done", ![r].ret = "true"]
       ELSE LET d == Head(run[r].queue)
                f == file[d]
                skip == [run EXCEPT ![r].queue = Tail(run[r].queue)]
            IN  IF ~SupportedExt(FileExt(f))
                THEN run' = skip
                ELSE IF SemanticChunks(f) = <<>>
                THEN run' = [skip EXCEPT ![r].calls = run[r].calls \cup {"download"}]
                ELSE \/ \* downloadError
                        run' = [skip EXCEPT ![r].calls = run[r].calls \cup {"download"}]
                     \/ run' = [run EXCEPT ![r].pc = "autoembed", ![r].doc = d, ![r].i = 0,
                                           ![r].calls = run[r].calls \cup {"download"}]
    /\ UNCHANGED <<configured, status, file, chunks, q, pure>>

\* step 5, one chunk
AutoChunk(r) ==
    /\ run[r].pc = "autoembed"
    /\ \E outcome \in ChunkOutcomes :
          LET d == run[r].doc
              i == run[r].i
          IN  /\ chunks' = chunks \cup InsertedRows(r, d, i, outcome)
              /\ run' = IF ~ChunkLoopAborts(outcome) /\ i + 1 < Len(SemanticChunks(file[d]))
                        THEN [run EXCEPT ![r].i = i + 1, ![r].calls = run[r].calls \cup {"embedding"}]
                        ELSE [run EXCEPT ![r].pc = "autodoc", ![r].i = 0, ![r].queue = Tail(run[r].queue),
                                         ![r].calls = run[r].calls \cup {"embedding"}]
    /\ UNCHANGED <<configured, status, file, q, pure>>

(* ------------------------------ query router -------------------------- *)
IsWs(c) == c \in {" ", "\t", "\n", "\r"}

RECURSIVE TrimLeft(_)
TrimLeft(s) ==
    IF Len(s) > 0 /\ IsWs(SubSeq(s, 1, 1)) THEN TrimLeft(SubSeq(s, 2, Len(s))) ELSE s

RECURSIVE TrimRight(_)
TrimRight(s) ==
    IF Len(s) > 0 /\ IsWs(SubSeq(s, Len(s), Len(s)))
    THEN TrimRight(SubSeq(s, 1, Len(s) - 1)) ELSE s

\* String.prototype.trim
Trim(s) == TrimRight(TrimLeft(s))

\* s.replace(/[.,!?;:]/g, '')
RECURSIVE StripPunctuation(_)
StripPunctuation(s) ==
    IF Len(s) = 0 THEN ""
    ELSE LET c == SubSeq(s, 1, 1)
             rest == StripPunctuation(SubSeq(s, 2, Len(s)))
         IN  IF c \in {".", ",", "!", "?", ";", ":"} THEN rest ELSE c \o rest

\* s.split(/\s+/).length, s trimmed
TokenCount(s) ==
    1 + Cardinality({i \in 2..Len(s) :
                        IsWs(SubSeq(s, i, i)) /\ ~IsWs(SubSeq(s, i - 1, i - 1))})

greetings ==
    {"hi", "hola", "hello", "hey", "buenos días", "buenos dias", "buenas tardes",
     "buenas noches", "saludos", "qué tal", "que tal", "cómo estás", "como estas",
     "cómo estás?", "como estas?", "buen día", "buen dia", "buena tarde", "buena noche"}

isGreeting(message) ==
    LET lowerMessage == Trim(ToLowerCase(message))
        trimmed == Trim(StripPunctuation(lowerMessage))
        isOnlyGreeting == \E g \in greetings : trimmed = g \/ StartsWith(trimmed, g \o " ")
        hasGreeting == \E g \in greetings : Includes(lowerMessage, g)
        isShortMessage == TokenCount(lowerMessage) <= 5
    IN  isOnlyGreeting \/ (hasGreeting /\ isShortMessage)

systemKeywords ==
    {"cuántos documentos", "cuantos documentos", "qué documentos", "que documentos",
     "qué información puedo", "que información puedo", "cómo funciona el sistema",
     "como funciona el sistema", "qué tipos de documentos", "que tipos de documentos",
     "cuántos archivos", "cuantos archivos", "cuántos archivos hay", "cuantos archivos hay",
     "cuántos documentos hay", "cuantos documentos hay"}

isSystemQuestion(question) ==
    \E k \in systemKeywords : Includes(ToLowerCase(question), k)

noInfoPhrases ==
    {"no tengo información", "no encontré información", "no tengo esa información",
     "no está en el contexto", "no está disponible", "no puedo responder",
     "no hay información", "no se encontró", "no se encuentra"}

indicatesNoInformation(answer) ==
    \E p \in noInfoPhrases : Includes(ToLowerCase(answer), p)

(* --------------------------- searchSimilarChunks ----------------------- *)
NullEmb == <<>>

Take(s, n) == SubSeq(s, 1, Min(n, Len(s)))

\* a row as a search candidate, with its similarity to the query vector
Candidate(c, embedding) ==
    [doc |-> c.doc, idx |-> c.idx, content |-> c.content, by |-> c.by,
     sim |-> cosineSimilarity(embedding, c.emb)]

\* a variant that returns the candidates in every order, sorted or not
RECURSIVE AnyOrders(_)
AnyOrders(S) ==
    IF S = {} THEN {<<>>}
    ELSE UNION {{<<m>> \o t : t \in AnyOrders(S \ {m})} : m \in S}

\* every descending-similarity order of a set of candidates (ties in any order)
RECURSIVE DescOrders(_)
DescOrders(S) ==
    IF S = {} THEN {<<>>}
    ELSE LET top == {x \in S : \A y \in S : ~SimGreater(y.sim, x.sim)}
         IN  UNION {{<<m>> \o t : t \in DescOrders(S \ {m})} : m \in top}

\* the server function match_document_chunks(query, threshold, count)
MatchDocumentChunks(rows, embedding, threshold, count) ==
    LET hit == {Candidate(c, embedding) : c \in {x \in rows : x.emb # NullEmb}}
        above == {c \in hit : SimGT(c.sim, threshold)}
    IN  {Take(o, count) : o \in DescOrders(above)}

\* the rows the fallback query can return: at most FetchLimit embedded rows
FallbackFetch(rows) ==
    LET emb == {x \in rows : x.emb # NullEmb}
    IN  {F \in SUBSET emb : Cardinality(F) = Min(Cardinality(emb), FetchLimit)}

(* the embedding column as the fallback query returns it: an array, a string
   (the text form of a vector), or some other value *)
Digits == "0123456789"
IsDigit(c) == \E d \in 1..10 : SubSeq(Digits, d, d) = c
DigitVal(c) == (CHOOSE d \in 1..10 : SubSeq(Digits, d, d) = c) - 1

\* the text of a natural number, and of an integer
RECURSIVE NatText(_)
NatText(n) ==
    IF n < 10 THEN SubSeq(Digits, n + 1, n + 1)
    ELSE NatText(n \div 10) \o SubSeq(Digits, (n % 10) + 1, (n % 10) + 1)

IntText(n) == IF n < 0 THEN "-" \o NatText(0 - n) ELSE NatText(n)

\* the text form of a vector: [x1,x2,...]
RECURSIVE JoinInts(_)
JoinInts(v) ==
    IF v = <<>> THEN ""
    ELSE IF Len(v) = 1 THEN IntText(v[1])
    ELSE IntText(v[1]) \o "," \o JoinInts(Tail(v))

VectorText(v) == "[" \o JoinInts(v) \o "]"

\* JSON number syntax (integers): digits without a leading zero, optional minus
IsNatText(s) ==
    /\ Len(s) > 0
    /\ \A i \in 1..Len(s) : IsDigit(SubSeq(s, i, i))
    /\ Len(s) = 1 \/ SubSeq(s, 1, 1) # "0"

IsIntText(s) ==
    \/ IsNatText(s)
    \/ Len(s) > 1 /\ SubSeq(s, 1, 1) = "-" /\ IsNatText(SubSeq(s, 2, Len(s)))

RECURSIVE NatValue(_)
NatValue(s) ==
    IF Len(s) = 1 THEN DigitVal(s)
    ELSE 10 * NatValue(SubSeq(s, 1, Len(s) - 1)) + DigitVal(SubSeq(s, Len(s), Len(s)))

IntValue(s) ==
    IF SubSeq(s, 1, 1) = "-" THEN 0 - NatValue(SubSeq(s, 2, Len(s))) ELSE NatValue(s)

\* the pieces of s between commas
RECURSIVE SplitCommas(_)
SplitCommas(s) ==
    IF \A i \in 1..Len(s) : SubSeq(s, i, i) # ","
    THEN <<s>>
    ELSE LET i == CHOOSE j \in 1..Len(s) :
                     SubSeq(s, j, j) = "," /\ \A h \in 1..(j - 1) : SubSeq(s, h, h) # ","
         IN  <<SubSeq(s, 1, i - 1)>> \o SplitCommas(SubSeq(s, i + 1, Len(s)))

\* JSON.parse on the texts of the model: an array of integers, a scalar, or a
\* SyntaxError (ok = FALSE)
JsonParse(s) ==
    LET fail == [ok |-> FALSE, array |-> FALSE, val |-> <<>>]
    IN  IF IsIntText(s) \/ s \in {"null", "true", "false"}
        THEN [ok |-> TRUE, array |-> FALSE, val |-> <<>>]
        ELSE IF Len(s) >= 2 /\ SubSeq(s, 1, 1) = "[" /\ SubSeq(s, Len(s), Len(s)) = "]"
        THEN LET inner == SubSeq(s, 2, Len(s) - 1)
                 parts == SplitCommas(inner)
             IN  IF inner = "" THEN [ok |-> TRUE, array |-> TRUE, val |-> <<>>]
                 ELSE IF \A k \in 1..Len(parts) : IsIntText(parts[k])
                 THEN [ok |-> TRUE, array |-> TRUE,
                       val |-> [k \in 1..Len(parts) |-> IntValue(parts[k])]]
                 ELSE fail
        ELSE fail

\* the formats in which a stored vector reaches the client
EmbeddingFormats == {"array", "string"}

\* a stored row as the fallback query returns it
FetchedRow(c, fmt) ==
    [doc |-> c.doc, idx |-> c.idx, content |-> c.content, by |-> c.by,
     embedding |-> IF fmt = "array"
                   THEN [type |-> "array", val |-> c.emb]
                   ELSE [type |-> "string", val |-> VectorText(c.emb)]]

\* chunkEmbedding of one fetched row, or ok = FALSE where the map returns null
ChunkEmbedding(raw, embedding) ==
    LET null == [ok |-> FALSE, val |-> <<>>]
    IN  IF raw.type = "array"
        THEN IF Len(raw.val) = 0 \/ Len(raw.val) # Len(embedding)
             THEN null ELSE [ok |-> TRUE, val |-> raw.val]
        ELSE IF raw.type = "string"
        THEN LET parsed == JsonParse(raw.val)
             IN  IF ~parsed.ok \/ ~parsed.array \/ Len(parsed.val) = 0
                    \/ Len(parsed.val) # Len(embedding)
                 THEN null ELSE [ok |-> TRUE, val |-> parsed.val]
        ELSE null

\* the rows that survive the map and the filter, with their similarity
ChunksWithSimilarity(fetched, embedding) ==
    {[doc |-> c.doc, idx |-> c.idx, content |-> c.content, by |-> c.by,
      sim |-> cosineSimilarity(embedding, ChunkEmbedding(c.embedding, embedding).val)] :
        c \in {x \in fetched : ChunkEmbedding(x.embedding, embedding).ok}}

\* a variant in which one unusable row makes the whole search return []
FallbackRankAllOrNothing(fetched, embedding, limit) ==
    IF \E x \in fetched : ~ChunkEmbedding(x.embedding, embedding).ok
    THEN {<<>>}
    ELSE {Take(o, limit * 2) : o \in DescOrders(ChunksWithSimilarity(fetched, embedding))}

\* the client-side ranking of the fetched rows
FallbackRank(fetched, embedding, limit) ==
    {Take(o, limit * 2) : o \in DescOrders(ChunksWithSimilarity(fetched, embedding))}

(* ------------------------------ aggregation ---------------------------- *)
\* the candidates that pass the minimum threshold, in search order
Relevant(cands) ==
    SelectSeq(cands, LAMBDA c : SimGE(c.sim, MIN_SIMILARITY_THRESHOLD))

\* the keys of chunksByDocument in insertion order
RECURSIVE GroupKeys(_)
GroupKeys(cands) ==
    IF cands = <<>> THEN <<>>
    ELSE LET d == Head(cands).doc
         IN  <<d>> \o GroupKeys(SelectSeq(Tail(cands), LAMBDA c : c.doc # d))

\* the chunks of one group, in insertion order
GroupChunks(cands, d) == SelectSeq(Relevant(cands), LAMBDA c : c.doc = d)

\* the first chunk of greatest similarity (a stable descending sort, element 0)
RECURSIVE BestOf(_)
BestOf(cs) ==
    IF Len(cs) = 1 THEN Head(cs)
    ELSE LET b == BestOf(Tail(cs))
         IN  IF SimLess(Head(cs).sim, b.sim) THEN b ELSE Head(cs)

maxSimilarity(cands, d) == BestOf(GroupChunks(cands, d)).sim

\* Array.prototype.sort by maxSimilarity descending (stable): insertion of d
RECURSIVE InsertDesc(_, _, _)
InsertDesc(cands, sorted, d) ==
    IF sorted = <<>> THEN <<d>>
    ELSE IF SimGreater(maxSimilarity(cands, d), maxSimilarity(cands, Head(sorted)))
         THEN <<d>> \o sorted
         ELSE <<Head(sorted)>> \o InsertDesc(cands, Tail(sorted), d)

RECURSIVE SortGroups(_, _)
SortGroups(cands, keys) ==
    IF keys = <<>> THEN <<>>
    ELSE InsertDesc(cands, SortGroups(cands, SubSeq(keys, 1, Len(keys) - 1)), keys[Len(keys)])

sortedDocuments(cands) == SortGroups(cands, GroupKeys(Relevant(cands)))

highSimilarityDocs(cands) ==
    SelectSeq(sortedDocuments(cands),
              LAMBDA d : SimGE(maxSimilarity(cands, d), HIGH_SIMILARITY_THRESHOLD))

\* a variant of the selection that always takes the two best groups
selectedTopTwo(cands) == Take(sortedDocuments(cands), 2)

selectedDocuments(cands) ==
    IF Len(highSimilarityDocs(cands)) > 1
    THEN Take(highSimilarityDocs(cands), 2)
    ELSE Take(sortedDocuments(cands), 1)

\* the representative chunk of each selected document
contextChunks(cands) ==
    [k \in 1..Len(selectedDocuments(cands)) |->
        BestOf(GroupChunks(cands, selectedDocuments(cands)[k]))]

(* ------------------------------- citations ----------------------------- *)
NoInfo == [found |-> FALSE, file_name |-> ""]

\* getDocumentInfo: the record's file_name, or null when the lookup fails
getDocumentInfo(d, fails) ==
    IF fails \/ status[d] = "none" THEN NoInfo ELSE [found |-> TRUE, file_name |-> file[d]]

\* a variant of the citations whose excerpt is content.substring(150)
BuildSourcesTail(cands, infos) ==
    LET ids == selectedDocuments(cands)
        kept == SelectSeq(infos, LAMBDA i : i.found)
    IN  [k \in 1..Len(kept) |->
            [title |-> kept[k].file_name,
             excerpt |-> LET c == BestOf(GroupChunks(cands, ids[k])).content
                         IN  SubSeq(c, ExcerptLen + 1, Len(c))]]

\* documentInfos.filter(info => info !== null).map((info, index) => ...)
BuildSources(cands, infos) ==
    LET ids == selectedDocuments(cands)
        kept == SelectSeq(infos, LAMBDA i : i.found)
    IN  [k \in 1..Len(kept) |->
            [title |-> kept[k].file_name,
             excerpt |-> Substring0(BestOf(GroupChunks(cands, ids[k])).content, ExcerptLen)]]

(* -------------------------------- queryChat ---------------------------- *)
\* texts the chat-completion service can answer with ('' stands for no content)
Answers ==
    {"Los empleados tienen veinte dias de vacaciones pagadas.",
     "Lo siento, No Puedo Responder con los documentos disponibles.",
     ""}

DefaultAnswer == "No pude generar una respuesta."

\* via: the page handler that makes the call, "none" for a direct call
IdleQuery ==
    [pc |-> "idle", via |-> "none", question |-> "", calls |-> {}, path |-> "none", cands |-> <<>>,
     infos |-> <<>>, outcome |-> "none", answer |-> "", sources |-> <<>>]

\* a return (or throw) of queryChat
Finish(call, outcome, answer, sources) ==
    [call EXCEPT !.pc = "done", !.outcome = outcome, !.answer = answer, !.sources = sources]

ProcessedCount == Cardinality({d \in Docs : status[d] = "processed"})
EmbeddedCount == Cardinality({c \in chunks : c.emb # NullEmb})

\* a variant of the routing that tests the system keywords first
RouteSystemFirst ==
    [x \in Questions |->
        IF isSystemQuestion(x) THEN "system"
        ELSE IF isGreeting(x) THEN "greeting"
        ELSE "content"]

\* a variant of the routing without the system-question check
RouteNoSystem ==
    [x \in Questions |-> IF isGreeting(x) THEN "greeting" ELSE "content"]

\* steps 0 and 0.1 of queryChat on each question: greeting first, then system
Route ==
    [x \in Questions |->
        IF isGreeting(x) THEN "greeting"
        ELSE IF isSystemQuestion(x) THEN "system"
        ELSE "content"]

\* the entry of queryChat: credentials, routing, and the count of processed documents
QueryEntry(call) ==
    IF ~configured
    THEN Finish(call, "notConfigured", "", <<>>)
    ELSE IF Route[call.question] = "greeting"
    THEN Finish(call, "greeting", "greeting", <<>>)
    ELSE IF Route[call.question] = "system"
    THEN Finish(call, "system", "system", <<>>)
    ELSE IF ProcessedCount = 0
    THEN Finish(call, "noDocuments", "guidance", <<>>)
    ELSE [call EXCEPT !.pc = "countChunks"]

\* a direct call of queryChat(question)
QueryStart(question) ==
    /\ q.pc = "idle"
    /\ q' = QueryEntry([IdleQuery EXCEPT !.question = question])
    /\ UNCHANGED <<configured, status, file, chunks, run, pure>>

\* step 2: the count of chunks that have an embedding
QueryCountChunks ==
    /\ q.pc = "countChunks"
    /\ q' = IF EmbeddedCount = 0
            THEN Finish(q, "stillProcessing", "guidance", <<>>)
            ELSE [q EXCEPT !.pc = "embed"]
    /\ UNCHANGED <<configured, status, file, chunks, run, pure>>

\* step 3: generateEmbedding(question)
QueryEmbed ==
    /\ q.pc = "embed"
    /\ LET called == [q EXCEPT !.calls = @ \cup {"embedding"}]
       IN  \/ q' = Finish(called, "threw", "", <<>>)
           \/ q' = [called EXCEPT !.pc = "search"]
    /\ UNCHANGED <<configured, status, file, chunks, run, pure>>

\* the rows of an RPC response as searchSimilarChunks returns them: a row that
\* carries its similarity is kept, a row that carries an embedding array
\* instead gets cosineSimilarity(embedding, row.embedding)
RpcShapes == {"similarity", "embedding"}

ProcessRpcRows(data, shape, embedding) ==
    [k \in 1..Len(data) |->
        IF shape = "similarity"
        THEN [doc |-> data[k].doc, idx |-> data[k].idx, content |-> data[k].content,
              by |-> data[k].by, sim |-> data[k].sim]
        ELSE [doc |-> data[k].doc, idx |-> data[k].idx, content |-> data[k].content,
              by |-> data[k].by, sim |-> cosineSimilarity(embedding, data[k].emb)]]

\* a row of the server function's result, with the column the response carries
RpcRow(c, rows) ==
    [doc |-> c.doc, idx |-> c.idx, content |-> c.content, by |-> c.by, sim |-> c.sim,
     emb |-> (CHOOSE x \in rows : x.doc = c.doc /\ x.idx = c.idx /\ x.by = c.by).emb]

\* the body of searchSimilarChunks inside its try block: the path taken, the
\* list it returns, or raised when a step throws
SearchAttempts(embedding, limit) ==
    LET att(calls, path, cands, raised) ==
            [calls |-> calls, path |-> path, cands |-> cands, raised |-> raised]
    IN  {att({"rpc"}, "rpcThrew", <<>>, TRUE)}
        \cup UNION {{att({"rpc"}, "rpc",
                         ProcessRpcRows([k \in 1..Len(cs) |-> RpcRow(cs[k], chunks)], shape, embedding),
                         FALSE) : shape \in RpcShapes} :
                       cs \in MatchDocumentChunks(chunks, embedding, MatchThreshold, limit)}
        \cup {att({"rpc", "fetch"}, "fetchError", <<>>, TRUE)}
        \cup UNION {IF F = {}
                    THEN {att({"rpc", "fetch"}, "fallbackEmpty", <<>>, FALSE)}
                    ELSE {att({"rpc", "fetch"}, "fallback", cs, FALSE) :
                             cs \in UNION {FallbackRank({FetchedRow(c, fmt) : c \in F}, embedding, limit) :
                                             fmt \in EmbeddingFormats}} :
                       F \in FallbackFetch(chunks)}

\* a variant of the catch block that lets the error escape
SearchRethrow(att) == att

\* the catch block of searchSimilarChunks: console.error and return []
SearchCatch(att) ==
    IF att.raised THEN [att EXCEPT !.cands = <<>>, !.raised = FALSE] ELSE att

\* what searchSimilarChunks(embedding, limit) can return, with the calls it makes
searchSimilarChunks(embedding, limit) ==
    {SearchCatch(a) : a \in SearchAttempts(embedding, limit)}

\* a variant without the return for an empty selection
AfterSearchNoThreshold(call) ==
    IF call.cands = <<>>
    THEN Finish(call, "noMatch", "guidance", <<>>)
    ELSE [call EXCEPT !.calls = @ \cup {"aggregate"}, !.pc = "lookup"]

\* after the search: the empty-result return, or grouping and selection
AfterSearch(call) ==
    IF call.cands = <<>>
    THEN Finish(call, "noMatch", "guidance", <<>>)
    ELSE LET grouped == [call EXCEPT !.calls = @ \cup {"aggregate"}]
         IN  IF sortedDocuments(call.cands) = <<>>
             THEN Finish(grouped, "noMatchThreshold", "guidance", <<>>)
             ELSE [grouped EXCEPT !.pc = "lookup"]

\* steps 4-6: searchSimilarChunks, grouping by document, selection
QuerySearch ==
    /\ q.pc = "search"
    /\ \E res \in searchSimilarChunks(Embed(q.question), SearchLimit) :
          LET call == [q EXCEPT !.calls = @ \cup res.calls, !.path = res.path, !.cands = res.cands]
          IN  q' = IF res.raised THEN Finish(call, "threw", "", <<>>) ELSE AfterSearch(call)
    /\ UNCHANGED <<configured, status, file, chunks, run, pure>>

\* step 8: getDocumentInfo for every selected document, and the citations
QueryLookup ==
    /\ q.pc = "lookup"
    /\ LET ids == selectedDocuments(q.cands)
       IN  \E failing \in SUBSET (1..Len(ids)) :
              LET infos == [k \in 1..Len(ids) |-> getDocumentInfo(ids[k], k \in failing)]
              IN  q' = [q EXCEPT !.pc = "complete", !.infos = infos]
    /\ UNCHANGED <<configured, status, file, chunks, run, pure>>

\* choices[0]?.message?.content || 'No pude generar una respuesta.'
AnswerText(content) == IF content = "" THEN DefaultAnswer ELSE content

\* indicatesNoInformation on each answer text
NoInformation == [a \in {AnswerText(c) : c \in Answers} |-> indicatesNoInformation(a)]

\* a variant that returns the citations whatever the answer says
ReturnedSourcesAlways(answer, sources) == sources

\* step 11: the sources returned with an answer
ReturnedSources(answer, sources) ==
    IF ~NoInformation[answer] /\ Len(sources) > 0 THEN sources ELSE <<>>

\* steps 10-11: the chat completion and the returned response
QueryComplete ==
    /\ q.pc = "complete"
    /\ LET called == [q EXCEPT !.calls = @ \cup {"completion"}]
       IN  \/ q' = Finish(called, "threw", "", <<>>)
           \/ \E content \in Answers :
                 LET answer == AnswerText(content)
                 IN  q' = Finish(called, "answered", answer, ReturnedSources(answer, BuildSources(q.cands, q.infos)))
    /\ UNCHANGED <<configured, status, file, chunks, run, pure>>

NextQuery ==
    \/ \E question \in Questions : QueryStart(question)
    \/ QueryCountChunks
    \/ QueryEmbed
    \/ QuerySearch
    \/ QueryLookup
    \/ QueryComplete

(* -------------------------- ingestion specification ------------------- *)
Init ==
    /\ configured \in BOOLEAN
    /\ status = [d \in Docs |-> "none"]
    /\ file = [d \in Docs |-> NoFile]
    /\ chunks = {}
    /\ run = [r \in Runs |-> IdleRun]
    /\ q = IdleQuery
    /\ pure = NoCall

UploadFiles == {"vacaciones.txt", "indice.txt", "foto.exe"}

\* the upload page: uploadDocument, with the processDocument call it makes
NextUpload ==
    \E r \in Runs :
        \/ \E f \in UploadFiles : UploadStart(r, f)
        \/ ProcCheck(r)
        \/ ProcChunk(r)
        \/ UploadStatus(r)
        \/ UploadCatch(r)

\* the exported ingestion calls: uploads, direct processDocument calls and
\* processDocumentsAutomatically
NextIngest ==
    \/ NextUpload
    \/ \E r \in Runs :
          \/ \E d \in Docs : ProcessStart(r, d)
          \/ AutoScan(r)
          \/ AutoDoc(r)
          \/ AutoChunk(r)

SpecIngest == Init /\ [][NextIngest]_vars

(* ------------------ the application: uploads and one chat query ------- *)
\* the questions asked while uploads are running
LiveQuestions == {QHola, QCount, QVac}

Next ==
    \/ NextUpload
    \/ \E question \in LiveQuestions : QueryStart(question)
    \/ QueryCountChunks
    \/ QueryEmbed
    \/ QuerySearch
    \/ QueryLookup
    \/ QueryComplete

Spec == Init /\ [][Next]_vars

(* ------------------- the chat panel of the documents page -------------- *)
Handlers == {"handleSend", "handleRefreshMessage"}

\* handleSend(text) with a non-blank text, or handleRefreshMessage on an
\* answer whose question is found: the handler awaits hasDocumentsProcessing
PageHandle(h, question) ==
    /\ q.pc = "idle"
    /\ q' = [IdleQuery EXCEPT !.pc = "guard", !.via = h, !.question = question]
    /\ UNCHANGED <<configured, status, file, chunks, run, pure>>

\* hasDocumentsProcessing: the count of 'processing' documents, false when
\* the query fails
hasDocumentsProcessing(failed) ==
    IF failed THEN FALSE ELSE \E d \in Docs : status[d] = "processing"

\* the count query is answered: the dialog is shown, or the handler goes on
PageGuard ==
    /\ q.pc = "guard"
    /\ \E failed \in BOOLEAN :
          q' = [q EXCEPT !.pc = IF hasDocumentsProcessing(failed) THEN "blocked" ELSE "send"]
    /\ UNCHANGED <<configured, status, file, chunks, run, pure>>

\* the handler resumes and calls queryChat
PageQuery ==
    /\ q.pc = "send"
    /\ q' = QueryEntry(q)
    /\ UNCHANGED <<configured, status, file, chunks, run, pure>>

NextPage ==
    \/ NextUpload
    \/ \E h \in Handlers, question \in LiveQuestions : PageHandle(h, question)
    \/ PageGuard
    \/ PageQuery
    \/ QueryCountChunks
    \/ QueryEmbed
    \/ QuerySearch
    \/ QueryLookup
    \/ QueryComplete

SpecPage == Init /\ [][NextPage]_vars

(* ----------------------------- chat specification --------------------- *)
\* the file of each document of the stored corpus
CorpusFile(d) ==
    CASE d = 1 -> "vacaciones.txt"
      [] d = 3 -> "seguridad.pdf"
      [] OTHER -> "gastos.md"

\* rows 0..n-1 of a document, as an ingestion call leaves them
CorpusRows(d, n) ==
    {Row(d, i, SemanticChunks(CorpusFile(d))[i + 1], 1) : i \in 0..(n - 1)}

\* the states a stored document can be in: its status and how many rows it has
CorpusStates(d) ==
    {[status |-> "none", rows |-> 0]}
    \cup {[status |-> st, rows |-> n] :
            st \in Statuses, n \in 0..Len(SemanticChunks(CorpusFile(d)))}

InitChat ==
    /\ configured \in BOOLEAN
    /\ \E corpus \in [Docs -> UNION {CorpusStates(d) : d \in Docs}] :
          /\ \A d \in Docs : corpus[d] \in CorpusStates(d)
          /\ status = [d \in Docs |-> corpus[d].status]
          /\ file = [d \in Docs |-> IF corpus[d].status = "none" THEN NoFile ELSE CorpusFile(d)]
          /\ chunks = UNION {CorpusRows(d, corpus[d].rows) : d \in Docs}
    /\ run = [r \in Runs |-> IdleRun]
    /\ q = IdleQuery
    /\ pure = NoCall

SpecChat == InitChat /\ [][NextQuery]_vars

(* ------------------ ingestion over a stored corpus --------------------- *)
\* rows 0..n-1 of a document, left by a call of an earlier session
StoredRows(d, n) ==
    {Row(d, i, SemanticChunks(CorpusFile(d))[i + 1], 0) : i \in 0..(n - 1)}

\* the database when the page loads: document 1 is processed and has rows,
\* document 2 may be processed without rows; the API key may be absent in
\* this session
InitStored ==
    /\ configured \in BOOLEAN
    /\ \E n \in 1..Len(SemanticChunks(CorpusFile(1))), second \in BOOLEAN :
          /\ status = [d \in Docs |-> IF d = 1 \/ (d = 2 /\ second) THEN "processed" ELSE "none"]
          /\ file = [d \in Docs |-> IF d = 1 \/ (d = 2 /\ second) THEN CorpusFile(d) ELSE NoFile]
          /\ chunks = StoredRows(1, n)
    /\ run = [r \in Runs |-> IdleRun]
    /\ q = IdleQuery
    /\ pure = NoCall

SpecReprocess == InitStored /\ [][NextIngest]_vars

(* ------------------- the fallback ranking as a function --------------- *)
MaxLimit == 2

\* rows a fallback fetch can return: usable embeddings as arrays and as
\* strings, and embeddings of the wrong dimension, empty, malformed, scalar
\* or of another type
FetchedPool ==
    LET row(i, e) == [doc |-> 1, idx |-> i, content |-> TxtGasB, by |-> 1, embedding |-> e]
        arr(v) == [type |-> "array", val |-> v]
        str(t) == [type |-> "string", val |-> t]
    IN  {row(0, arr(<<4, 3>>)), row(1, str("[1,2]")), row(2, str("[1,1]")),
         row(3, str("[3,-7]")), row(4, arr(<<1, 2, 3>>)), row(5, arr(<<>>)),
         row(6, str("[1,2")), row(7, str("[]")), row(8, str("12")),
         row(9, [type |-> "object", val |-> <<>>]), row(10, str("[1,2,3]"))}

QueryVectors == {Embed(QVac), Embed(QSeg), Embed(QNada)}

InitFallback ==
    /\ configured = TRUE
    /\ status = [d \in Docs |-> "none"]
    /\ file = [d \in Docs |-> NoFile]
    /\ chunks = {}
    /\ run = [r \in Runs |-> IdleRun]
    /\ q = IdleQuery
    /\ \E F \in SUBSET FetchedPool, e \in QueryVectors, k \in 1..MaxLimit :
          pure = [fn |-> "fallback", fetched |-> F, embedding |-> e, limit |-> k,
                  done |-> FALSE, out |-> <<>>]

\* the fallback ranking applied to the fetched rows
FallbackApply ==
    /\ pure.fn = "fallback" /\ ~pure.done
    /\ \E out \in FallbackRank(pure.fetched, pure.embedding, pure.limit) :
          pure' = [pure EXCEPT !.done = TRUE, !.out = out]
    /\ UNCHANGED <<configured, status, file, chunks, run, q>>

NextFallback == FallbackApply

SpecFallback == InitFallback /\ [][NextFallback]_vars

(* ------------------------------ the segmenter -------------------------- *)
\* maxSize of the fixed-width fallback of splitIntoSentences
MaxFragmentSize == 800

Char(s, i) == SubSeq(s, i, i)
Slice(s, from, to) == SubSeq(s, from, Min(to, Len(s)))
EndsWith(s, suf) == Len(s) >= Len(suf) /\ SubSeq(s, Len(s) - Len(suf) + 1, Len(s)) = suf
IsUpper(c) == Len(c) = 1 /\ LowerChar(c) # c

\* the positions of String.prototype.indexOf and lastIndexOf, 0 when absent
FirstIndexOf(s, c) ==
    IF \E i \in 1..Len(s) : Char(s, i) = c
    THEN CHOOSE i \in 1..Len(s) : Char(s, i) = c /\ \A j \in 1..(i - 1) : Char(s, j) # c
    ELSE 0

LastIndexOf(s, c) ==
    IF \E i \in 1..Len(s) : Char(s, i) = c
    THEN CHOOSE i \in 1..Len(s) : Char(s, i) = c /\ \A j \in (i + 1)..Len(s) : Char(s, j) # c
    ELSE 0

\* text.replace(/\r\n/g, '\n').replace(/\r/g, '\n')
RECURSIVE NormalizeLineBreaks(_)
NormalizeLineBreaks(s) ==
    LET i == FirstIndexOf(s, "\r")
    IN  IF i = 0 THEN s
        ELSE SubSeq(s, 1, i - 1) \o "\n"
             \o NormalizeLineBreaks(SubSeq(s, IF i < Len(s) /\ Char(s, i + 1) = "\n" THEN i + 2 ELSE i + 1,
                                           Len(s)))

\* the end of the whitespace run that starts at position i (i - 1 when none)
RECURSIVE WsRunEnd(_, _)
WsRunEnd(s, i) ==
    IF i <= Len(s) /\ IsWs(Char(s, i)) THEN WsRunEnd(s, i + 1) ELSE i - 1

\* s.split(/\n\s*\n/): a separator starts at a newline and extends to the
\* last newline of the whitespace run around it
RECURSIVE SplitParagraphs(_)
SplitParagraphs(s) ==
    LET sepEnd(i) ==
            LET e == WsRunEnd(s, i + 1)
                nl == {j \in (i + 1)..e : Char(s, j) = "\n"}
            IN  IF nl = {} THEN 0 ELSE CHOOSE j \in nl : \A h \in nl : h <= j
        starts == {i \in 1..Len(s) : Char(s, i) = "\n" /\ sepEnd(i) # 0}
    IN  IF starts = {} THEN <<s>>
        ELSE LET i == CHOOSE x \in starts : \A y \in starts : x <= y
             IN  <<SubSeq(s, 1, i - 1)>> \o SplitParagraphs(SubSeq(s, sepEnd(i) + 1, Len(s)))

abbreviations ==
    {"sr", "sra", "srta", "dr", "dra", "prof", "ing", "lic", "etc", "vs", "p", "ej", "pág", "págs"}

\* the fixed-width fragments of a text without sentences; cur is 0-based
RECURSIVE FixedFragments(_, _)
FixedFragments(text, cur) ==
    IF cur >= Len(text) THEN <<>>
    ELSE LET fragment == Slice(text, cur + 1, cur + MaxFragmentSize)
             lastSpace == LastIndexOf(fragment, " ") - 1
         IN  IF 2 * lastSpace > MaxFragmentSize /\ cur + MaxFragmentSize < Len(text)
             THEN <<Trim(Slice(text, cur + 1, cur + lastSpace))>>
                  \o FixedFragments(text, cur + lastSpace + 1)
             ELSE <<Trim(fragment)>> \o FixedFragments(text, cur + MaxFragmentSize)

\* the loop over the matches of /([.!?])\s+(?=[A-ZÁÉÍÓÚÑ])/g: last is where
\* the current sentence starts, from where the next match is searched
RECURSIVE SentenceLoop(_, _, _)
SentenceLoop(text, last, from) ==
    LET isMatch(p) ==
            /\ Char(text, p) \in {".", "!", "?"}
            /\ p < Len(text) /\ IsWs(Char(text, p + 1))
            /\ WsRunEnd(text, p + 1) < Len(text)
            /\ IsUpper(Char(text, WsRunEnd(text, p + 1) + 1))
        matches == {p \in from..Len(text) : isMatch(p)}
    IN  IF matches = {}
        THEN LET lastSentence == Trim(SubSeq(text, last, Len(text)))
             IN  IF Len(lastSentence) > 0 THEN <<lastSentence>> ELSE <<>>
        ELSE LET p == CHOOSE x \in matches : \A y \in matches : x <= y
                 next == WsRunEnd(text, p + 1) + 1
                 potentialSentence == SubSeq(text, last, p)
                 beforePoint == ToLowerCase(SubSeq(potentialSentence,
                                                   Len(potentialSentence) - Min(10, Len(potentialSentence)) + 1,
                                                   Len(potentialSentence)))
                 isAbbreviation == \E a \in abbreviations : EndsWith(beforePoint, a \o ".")
                 sentence == Trim(potentialSentence)
             IN  IF isAbbreviation THEN SentenceLoop(text, last, next)
                 ELSE (IF Len(sentence) > 0 THEN <<sentence>> ELSE <<>>)
                      \o SentenceLoop(text, next, next)

splitIntoSentences(text) ==
    LET sentences == SentenceLoop(text, 1, 1)
    IN  IF sentences = <<>>
        THEN SelectSeq(FixedFragments(text, 0), LAMBDA f : Len(f) > 0)
        ELSE sentences

getOverlapText(chunk, overlapSize) ==
    IF Len(chunk) <= overlapSize THEN chunk
    ELSE LET overlap == IF overlapSize = 0 THEN chunk
                        ELSE SubSeq(chunk, Len(chunk) - overlapSize + 1, Len(chunk))
             firstSpace == FirstIndexOf(overlap, " ")
             firstPeriod == FirstIndexOf(overlap, ".")
             firstNewline == FirstIndexOf(overlap, "\n")
             cutPoint == IF firstNewline > 0 THEN firstNewline
                         ELSE IF firstPeriod > 0 THEN firstPeriod
                         ELSE IF firstSpace > 0 THEN firstSpace
                         ELSE 0
         IN  IF cutPoint > 0 THEN Trim(SubSeq(overlap, cutPoint + 1, Len(overlap)))
             ELSE Trim(overlap)

\* chunks.push(currentChunk.trim()); currentChunk = getOverlapText(currentChunk, overlap)
\* carry keeps the overlap text of every push
PushChunk(st, overlap) ==
    [chunks |-> Append(st.chunks, Trim(st.cur)),
     carry |-> Append(st.carry, getOverlapText(st.cur, overlap)),
     cur |-> getOverlapText(st.cur, overlap)]

\* a chunk loop that forgets the piece that made it push
AddPieceLosing(st, piece, sep, chunkSize, overlap) ==
    LET needed == IF sep = " " THEN Len(piece) + 1
                  ELSE IF Len(st.cur) > 0 THEN Len(piece) + 2 ELSE Len(piece)
    IN  IF Len(st.cur) + needed > chunkSize /\ Len(Trim(st.cur)) > 0
        THEN PushChunk(st, overlap)
        ELSE [st EXCEPT !.cur = (IF Len(st.cur) > 0 THEN st.cur \o sep ELSE "") \o piece]

\* one piece (a sentence with sep ' ', a paragraph with sep '\n\n') added to
\* the current chunk, after the push its size may require
AddPiece(st, piece, sep, chunkSize, overlap) ==
    LET needed == IF sep = " " THEN Len(piece) + 1
                  ELSE IF Len(st.cur) > 0 THEN Len(piece) + 2 ELSE Len(piece)
        st1 == IF Len(st.cur) + needed > chunkSize /\ Len(Trim(st.cur)) > 0
               THEN PushChunk(st, overlap) ELSE st
    IN  [st1 EXCEPT !.cur = (IF Len(st1.cur) > 0 THEN st1.cur \o sep ELSE "") \o piece]

RECURSIVE AddSentences(_, _, _, _)
AddSentences(st, sentences, chunkSize, overlap) ==
    IF sentences = <<>> THEN st
    ELSE AddSentences(AddPiece(st, Head(sentences), " ", chunkSize, overlap),
                      Tail(sentences), chunkSize, overlap)

\* the loop over the paragraphs
RECURSIVE AddParagraphs(_, _, _, _)
AddParagraphs(st, paragraphs, chunkSize, overlap) ==
    IF paragraphs = <<>> THEN st
    ELSE LET paragraph == Trim(Head(paragraphs))
             st1 == IF Len(paragraph) > chunkSize
                    THEN AddSentences(IF Len(Trim(st.cur)) > 0 THEN PushChunk(st, overlap) ELSE st,
                                      splitIntoSentences(paragraph), chunkSize, overlap)
                    ELSE AddPiece(st, paragraph, "\n\n", chunkSize, overlap)
         IN  AddParagraphs(st1, Tail(paragraphs), chunkSize, overlap)

\* the run of splitIntoChunks: the chunks pushed and the overlap texts carried
SplitRun(text, chunkSize, overlap) ==
    LET paragraphs == SelectSeq(SplitParagraphs(NormalizeLineBreaks(text)),
                                LAMBDA x : Len(Trim(x)) > 0)
        st == AddParagraphs([chunks |-> <<>>, carry |-> <<>>, cur |-> ""],
                            paragraphs, chunkSize, overlap)
        all == IF Len(Trim(st.cur)) > 0 THEN Append(st.chunks, Trim(st.cur)) ELSE st.chunks
    IN  [chunks |-> SelectSeq(all, LAMBDA c : Len(c) > 0), carry |-> st.carry]

splitIntoChunks(text, chunkSize, overlap) == SplitRun(text, chunkSize, overlap).chunks

(* ---------------------- the segmenter as a function -------------------- *)
MaxParagraphs == 2

\* s repeated n times
RECURSIVE Repeat(_, _)
Repeat(s, n) ==
    IF n = 0 THEN ""
    ELSE LET half == Repeat(s, n \div 2)
         IN  half \o half \o (IF n % 2 = 1 THEN s ELSE "")

\* a paragraph of 903 characters without terminal punctuation, longer than
\* the window of the fixed-width fallback
LongParagraph == Repeat("palabra ", 112) \o "palabra"

\* paragraphs of the texts: short ones, one that ends with a period, one with
\* three sentences, one without any space, one longer than the fallback window,
\* one with an abbreviation, a Windows line break and a double space
ParagraphPool ==
    {"aaaa bbbb cccc", "dddd eeee ffff", "aaaa bbbb cccc.",
     "Uno dos tres. Cuatro cinco seis. Siete ocho nueve diez.",
     "xxxxxxxxxxxxxxxxxxxxxxxxxxxxxx", "Fin.", LongParagraph,
     "Vea al Dr. Perez hoy.\r\nLuego  vuelva. Ya"}

RECURSIVE JoinParagraphs(_)
JoinParagraphs(ps) ==
    IF Len(ps) = 1 THEN ps[1] ELSE ps[1] \o "\n\n" \o JoinParagraphs(Tail(ps))

SplitTexts ==
    UNION {{JoinParagraphs(ps) : ps \in [1..n -> ParagraphPool]} : n \in 1..MaxParagraphs}

ChunkSizes == {16, 24}
Overlaps == {0, 5, 16}

InitSplit ==
    /\ configured = TRUE
    /\ status = [d \in Docs |-> "none"]
    /\ file = [d \in Docs |-> NoFile]
    /\ chunks = {}
    /\ run = [r \in Runs |-> IdleRun]
    /\ q = IdleQuery
    /\ \E text \in SplitTexts, chunkSize \in ChunkSizes, overlap \in Overlaps :
          pure = [fn |-> "split", text |-> text, chunkSize |-> chunkSize, overlap |-> overlap,
                  done |-> FALSE, outcome |-> "none", chunks |-> <<>>, carry |-> <<>>]

\* splitIntoChunks applied to the text: it has no throw and no early return,
\* so every call returns its chunk list
SplitApply ==
    /\ pure.fn = "split" /\ ~pure.done
    /\ LET res == SplitRun(pure.text, pure.chunkSize, pure.overlap)
       IN  pure' = [pure EXCEPT !.done = TRUE, !.outcome = "returned",
                                !.chunks = res.chunks, !.carry = res.carry]
    /\ UNCHANGED <<configured, status, file, chunks, run, q>>

NextSplit == SplitApply

SpecSplit == InitSplit /\ [][NextSplit]_vars

(* --------------------------- the structural filter -------------------- *)
\* [a-zA-ZÁÉÍÓÚáéíóúÑñ]
IsAlpha(c) ==
    \E k \in 1..64 :
        SubSeq("abcdefghijklmnopqrstuvwxyzABCDEFGHIJKLMNOPQRSTUVWXYZÁÉÍÓÚáéíóúÑñ", k, k) = c

IsNewline(c) == c = "\n"
IsSentenceEnd(c) == c \in {".", "!", "?"}
IsRoman(c) == ToLowerCase(c) \in {"i", "v", "x", "l", "c", "d", "m"}

\* the character classes of the filter's regular expressions:
\* \s, \n, [.!?], \d and [ivxlcdm] (case-insensitive)
InClass(class, c) ==
    CASE class = "ws" -> IsWs(c)
      [] class = "newline" -> IsNewline(c)
      [] class = "sentenceEnd" -> IsSentenceEnd(c)
      [] class = "digit" -> IsDigit(c)
      [] class = "roman" -> IsRoman(c)

\* the pieces of s between the characters of the class sep, as start
\* positions in text order (String.prototype.split on a run of separators,
\* without the empty pieces)
PieceStarts(s, sep) ==
    {i \in 1..Len(s) : ~InClass(sep, Char(s, i)) /\ (i = 1 \/ InClass(sep, Char(s, i - 1)))}

PieceEnd(s, i, sep) ==
    CHOOSE j \in i..Len(s) :
        /\ \A h \in i..j : ~InClass(sep, Char(s, h))
        /\ (j = Len(s) \/ InClass(sep, Char(s, j + 1)))

Piece(s, i, sep) == SubSeq(s, i, PieceEnd(s, i, sep))

\* text.split(/\s+/).filter(Boolean).length
WordCount(s) == Cardinality(PieceStarts(s, "ws"))

\* new Set(words.map(w => w.toLowerCase())).size
UniqueWords(s) == Cardinality({ToLowerCase(Piece(s, i, "ws")) : i \in PieceStarts(s, "ws")})

\* the start positions of the lines that are not blank; a line is used trimmed
LineStarts(text) == {i \in PieceStarts(text, "newline") : Len(Trim(Piece(text, i, "newline"))) > 0}
LineAt(text, i) == Trim(Piece(text, i, "newline"))

\* lowerText.includes(keyword), for text whose characters lower one by one
LowerIncludes(text, keyword) ==
    \E i \in 1..(Len(text) - Len(keyword) + 1) :
        ToLowerCase(SubSeq(text, i, i + Len(keyword) - 1)) = keyword

tocKeywords == {"indice", "índice", "table of contents", "contenido", "contenidos", "contents"}
coverKeywords ==
    {"portada", "cover", "autor", "author", "versión", "version", "fecha", "confidencial",
     "revisión", "revision"}

\* the end of the run of characters of the class that starts at position i
\* (i - 1 when the run is empty)
RunEnd(s, i, class) ==
    CHOOSE j \in (i - 1)..Len(s) :
        /\ \A h \in i..j : InClass(class, Char(s, h))
        /\ (j = Len(s) \/ ~InClass(class, Char(s, j + 1)))

\* the end of the groups (\.\d+)* that start at position i (i - 1 when none)
RECURSIVE DotGroupsEnd(_, _)
DotGroupsEnd(line, i) ==
    IF i < Len(line) /\ Char(line, i) = "." /\ IsDigit(Char(line, i + 1))
    THEN DotGroupsEnd(line, RunEnd(line, i + 1, "digit") + 1)
    ELSE i - 1

\* /^(\d+(\.\d+)*|[ivxlcdm]+\.)\s+/i.test(line)
IsNumberingLine(line) ==
    LET d == RunEnd(line, 1, "digit")
        g == DotGroupsEnd(line, d + 1)
        r == RunEnd(line, 1, "roman")
    IN  \/ d >= 1 /\ g < Len(line) /\ IsWs(Char(line, g + 1))
        \/ r >= 1 /\ r + 1 < Len(line) /\ Char(line, r + 1) = "." /\ IsWs(Char(line, r + 2))

\* the start of the run of characters of the class that ends at position i
\* (i + 1 when the run is empty)
RunStart(s, i, class) ==
    CHOOSE j \in 1..(i + 1) :
        /\ \A h \in j..i : InClass(class, Char(s, h))
        /\ (j = 1 \/ ~InClass(class, Char(s, j - 1)))

\* /\.{3,}\s*\d+$/.test(line)
IsDotLeaderLine(line) ==
    LET d == RunStart(line, Len(line), "digit")
        w == RunStart(line, d - 1, "ws")
    IN  /\ d <= Len(line)
        /\ w >= 4
        /\ SubSeq(line, w - 3, w - 1) = "..."

\* sentences with at least six words
hasMeaningfulSentence(text) ==
    \E i \in PieceStarts(text, "sentenceEnd") : WordCount(Piece(text, i, "sentenceEnd")) >= 6

\* every signal of the filter; ratios are compared as cross products
StructuralSignals(text) ==
    LET lines == Cardinality(LineStarts(text))
        wordCount == WordCount(text)
        digitCount == Cardinality({i \in 1..Len(text) : IsDigit(Char(text, i))})
        alphaCount == Cardinality({i \in 1..Len(text) : IsAlpha(Char(text, i))})
        hasTocKeyword == \E k \in tocKeywords : LowerIncludes(text, k)
        hasCoverKeyword == \E k \in coverKeywords : LowerIncludes(text, k)
        numberingLines == Cardinality({i \in LineStarts(text) : IsNumberingLine(LineAt(text, i))})
        dotLeaderLines == Cardinality({i \in LineStarts(text) : IsDotLeaderLine(LineAt(text, i))})
        structural == numberingLines + dotLeaderLines
        meaningful == hasMeaningfulSentence(text)
    IN  [hasMeaningfulSentence |-> meaningful,
         looksLikeToc |-> \/ hasTocKeyword /\ lines > 0 /\ 5 * structural >= lines
                          \/ lines >= 4 /\ 5 * structural >= 3 * lines /\ wordCount <= 8 * lines
                          \/ dotLeaderLines >= 3,
         looksLikeCover |-> hasCoverKeyword /\ wordCount <= 150 /\ lines <= 15 /\ ~meaningful,
         highDigitShortText |-> /\ alphaCount + digitCount > 0
                                /\ 10 * digitCount >= 6 * (alphaCount + digitCount)
                                /\ wordCount <= 40 /\ ~meaningful,
         veryLowSemantic |-> UniqueWords(text) <= 4 /\ wordCount <= 10]

AnySignal(sig) ==
    sig.looksLikeToc \/ sig.looksLikeCover \/ sig.highDigitShortText \/ sig.veryLowSemantic

\* a filter that combines the signals without looking at the sentences first
isLikelyStructuralNoShortCircuit(chunk) ==
    LET text == Trim(chunk)
    IN  IF Len(text) = 0 THEN TRUE ELSE AnySignal(StructuralSignals(text))

isLikelyStructuralChunk(chunk) ==
    LET text == Trim(chunk)
        sig == StructuralSignals(text)
    IN  IF Len(text) = 0 THEN TRUE
        ELSE IF sig.hasMeaningfulSentence THEN FALSE
        ELSE AnySignal(sig)

(* --------------------- the structural filter as a function ------------- *)
MaxLines == 3

\* lines of the chunks: a contents keyword, a numbered line with a dot
\* leader, a cover keyword, six equal words, digits, prose, a short remark
LinePool ==
    {"Indice", "1.2 Vacaciones ... 12", "Autor: Ana", "si si si si si si",
     "2024 10 31", "Los empleados tienen veinte dias de vacaciones.", "Ver pag. 3"}

RECURSIVE JoinLines(_)
JoinLines(ls) == IF Len(ls) = 1 THEN ls[1] ELSE ls[1] \o "\n" \o JoinLines(Tail(ls))

StructuralInputs ==
    {"", " \n"} \cup UNION {{JoinLines(ls) : ls \in [1..n -> LinePool]} : n \in 1..MaxLines}

InitStructural ==
    /\ configured = TRUE
    /\ status = [d \in Docs |-> "none"]
    /\ file = [d \in Docs |-> NoFile]
    /\ chunks = {}
    /\ run = [r \in Runs |-> IdleRun]
    /\ q = IdleQuery
    /\ \E chunk \in StructuralInputs :
          pure = [fn |-> "structural", chunk |-> chunk, done |-> FALSE, result |-> FALSE]

\* isLikelyStructuralChunk applied to the chunk
StructuralApply ==
    /\ pure.fn = "structural" /\ ~pure.done
    /\ pure' = [pure EXCEPT !.done = TRUE, !.result = isLikelyStructuralChunk(pure.chunk)]
    /\ UNCHANGED <<configured, status, file, chunks, run, q>>

NextStructural == StructuralApply

SpecStructural == InitStructural /\ [][NextStructural]_vars

(* ------------------ the messages of the completion call ---------------- *)
\* Array.prototype.slice(-n)
LastN(s, n) == SubSeq(s, IF Len(s) > n THEN Len(s) - n + 1 ELSE 1, Len(s))

IsUserMessage(msg) == msg.role = "user"
IsNotSystemMessage(msg) == ~isSystemQuestion(msg.content)

\* a variant that takes the last two turns of the history whoever wrote them
recentMessagesAnyRole(conversationHistory) == LastN(conversationHistory, 2)

\* conversationHistory.filter(msg => msg.role === 'user').slice(-2)
recentUserMessages(conversationHistory) ==
    LastN(SelectSeq(conversationHistory, IsUserMessage), 2)

\* .filter(msg => !isSystemQuestion(msg.content)).map(msg => ({ role: 'user', content }))
relevantHistory(conversationHistory) ==
    LET kept == SelectSeq(recentUserMessages(conversationHistory), IsNotSystemMessage)
    IN  [k \in 1..Len(kept) |-> [role |-> "user", content |-> kept[k].content]]

\* the messages array of openai.chat.completions.create
CompletionMessages(conversationHistory, question) ==
    <<[role |-> "system", content |-> "systemPrompt"]>>
    \o relevantHistory(conversationHistory)
    \o <<[role |-> "user", content |-> question]>>

MaxHistory == 4

\* turns of a conversation: content questions, a greeting, a system
\* question, an answer, and an answer that quotes a system question
HistoryTurns ==
    {[role |-> "user", content |-> QVac], [role |-> "user", content |-> QSeg],
     [role |-> "user", content |-> QHola], [role |-> "user", content |-> QCount],
     [role |-> "assistant", content |-> "respuesta"], [role |-> "assistant", content |-> QCount]}

Histories == UNION {[1..n -> HistoryTurns] : n \in 0..MaxHistory}

InitHistory ==
    /\ configured = TRUE
    /\ status = [d \in Docs |-> "none"]
    /\ file = [d \in Docs |-> NoFile]
    /\ chunks = {}
    /\ run = [r \in Runs |-> IdleRun]
    /\ q = IdleQuery
    /\ \E h \in Histories, question \in {QVac, QGas} :
          pure = [fn |-> "history", conversationHistory |-> h, question |-> question,
                  done |-> FALSE, messages |-> <<>>]

\* steps 9 and 10 of queryChat: the messages handed to the completion service
HistoryApply ==
    /\ pure.fn = "history" /\ ~pure.done
    /\ pure' = [pure EXCEPT !.done = TRUE,
                            !.messages = CompletionMessages(pure.conversationHistory, pure.question)]
    /\ UNCHANGED <<configured, status, file, chunks, run, q>>

NextHistory == HistoryApply

SpecHistory == InitHistory /\ [][NextHistory]_vars

(* ============================ properties =============================== *)
(* ------------------------- C1: retrieval and status -------------------- *)
\* C1: in every interleaving of uploadDocument and queryChat, every chunk the
\* similarity search hands to queryChat belongs to a document whose status is
\* 'processed' at the moment of the search.
C1_RetrievedOnlyFromProcessed ==
    [][(q.pc = "search" /\ q'.pc # "search")
          => \A k \in 1..Len(q'.cands) : status[q'.cands[k].doc] = "processed"]_vars

\* a search has returned a chunk of a document that is still 'processing'
C1_RetrievedFromProcessing ==
    /\ q.pc \in {"lookup", "complete"}
    /\ \E k \in 1..Len(q.cands) : status[q.cands[k].doc] = "processing"

(* ------------------------- C2: the status lifecycle -------------------- *)
\* C2: a document record is created with status 'processing'; from
\* 'processing' it moves only to 'processed' or 'error' (or stays); a
\* 'processed' or 'error' status never changes again; no record is deleted.
C2_StatusLifecycle ==
    [][\A d \in Docs :
          /\ (status[d] = "none" /\ status'[d] # "none") => status'[d] = "processing"
          /\ status[d] = "processing" => status'[d] \in Statuses
          /\ status[d] \in {"processed", "error"} => status'[d] = status[d]]_vars

\* two uploads have ended, one document 'processed' and the other 'error'
C2_BothTerminalStatuses ==
    /\ \E d \in Docs : status[d] = "processed"
    /\ \E d \in Docs : status[d] = "error"
    /\ \A r \in Runs : run[r].kind = "upload" /\ run[r].pc = "done"

(* ------------------------- C3: chunk_index per document ---------------- *)
\* C3: in every reachable state, failures included, the chunk_index values of
\* the rows of each document are unique and are exactly 0..n-1 for its n rows.
C3_ChunkIndexContiguous ==
    \A d \in Docs :
        LET rows == ChunksOf(d)
            idxs == {c.idx : c \in rows}
        IN  /\ Cardinality(idxs) = Cardinality(rows)
            /\ idxs = 0..(Cardinality(rows) - 1)

(* ------------------------- C4: the existence check --------------------- *)
\* C4: the existence check of processDocument is not atomic with its inserts:
\* every run that passes the check does so while the document has no rows,
\* and yet two runs on the same document can both pass it and both insert,
\* which leaves two rows with the same (document_id, chunk_index).
C4_CheckPassedOnlyWithoutRows ==
    [][\A r \in Runs :
          (run[r].pc = "check" /\ run'[r].pc = "embed") => ChunksOf(run[r].doc) = {}]_vars

\* two processDocument runs on one document have each inserted a row with the
\* same (document_id, chunk_index)
C4_DuplicateRows ==
    \E r1, r2 \in Runs :
        /\ r1 # r2
        /\ run[r1].doc = run[r2].doc
        /\ {run[r1].kind, run[r2].kind} \subseteq {"upload", "process"}
        /\ \E c1, c2 \in chunks :
              /\ c1.doc = run[r1].doc /\ c2.doc = c1.doc /\ c1.idx = c2.idx
              /\ c1.by = r1 /\ c2.by = r2

(* ------------------------- C5: greetings and system questions ---------- *)
\* the questions isGreeting accepts, and those isSystemQuestion accepts
GreetingQuestions == {x \in Questions : isGreeting(x)}
SystemQuestions == {x \in Questions : isSystemQuestion(x)}

\* C5: for every question classified as a greeting or as a system question,
\* queryChat returns with empty sources and without any call to the embedding
\* service, the search, the aggregation or the completion service.
C5_ShortCircuit ==
    (q.pc # "idle" /\ configured /\ q.question \in GreetingQuestions \cup SystemQuestions)
        => /\ q.pc = "done"
           /\ q.outcome \in {"greeting", "system"}
           /\ q.sources = <<>>
           /\ q.calls = {}

\* a system question has been answered over a corpus that could be searched
C5_SystemAnsweredOverCorpus ==
    /\ q.pc = "done" /\ q.outcome = "system"
    /\ q.question \in SystemQuestions \ GreetingQuestions
    /\ ProcessedCount > 0 /\ EmbeddedCount > 0

(* ------------------------- C6: tiered selection ------------------------ *)
\* C6: among the groups of candidates at or above the minimum threshold, if
\* at least two groups have a maximum of at least 0.6 the two of greatest
\* maximum are selected; otherwise the single group of greatest maximum is
\* selected; never more than two, never a group below a group left out.
C6_TieredSelection ==
    LET rel == {q.cands[k] : k \in {j \in 1..Len(q.cands) : SimGE(q.cands[j].sim, MIN_SIMILARITY_THRESHOLD)}}
        R == {c.doc : c \in rel}
        MaxOf(d) == (CHOOSE c \in rel : c.doc = d /\ \A c2 \in rel : c2.doc = d => ~SimGreater(c2.sim, c.sim)).sim
        H == {d \in R : SimGE(MaxOf(d), HIGH_SIMILARITY_THRESHOLD)}
        sel == selectedDocuments(q.cands)
        S == {sel[k] : k \in 1..Len(sel)}
    IN  rel # {} =>
          /\ Len(sel) <= 2
          /\ Cardinality(S) = Len(sel)
          /\ IF Cardinality(H) >= 2
             THEN /\ Len(sel) = 2
                  /\ S \subseteq H
                  /\ ~SimLess(MaxOf(sel[1]), MaxOf(sel[2]))
                  /\ \A d \in R \ S : ~SimGreater(MaxOf(d), MaxOf(sel[2]))
             ELSE /\ Len(sel) = 1
                  /\ \A d \in R : ~SimGreater(MaxOf(d), MaxOf(sel[1]))

\* three groups, two of them at 0.6 or more and one between 0.5 and 0.6: the
\* two are selected and the third is left out
C6_TwoHighOneMedium ==
    LET rel == {q.cands[k] : k \in {j \in 1..Len(q.cands) : SimGE(q.cands[j].sim, MIN_SIMILARITY_THRESHOLD)}}
        R == {c.doc : c \in rel}
        H == {c.doc : c \in {x \in rel : SimGE(x.sim, HIGH_SIMILARITY_THRESHOLD)}}
    IN  /\ q.pc = "lookup"
        /\ Cardinality(R) = 3 /\ Cardinality(H) = 2
        /\ Len(selectedDocuments(q.cands)) = 2

\* two groups, both between 0.5 and 0.6: only the better one is selected
C6_TwoMedium ==
    LET rel == {q.cands[k] : k \in {j \in 1..Len(q.cands) : SimGE(q.cands[j].sim, MIN_SIMILARITY_THRESHOLD)}}
        R == {c.doc : c \in rel}
        H == {c.doc : c \in {x \in rel : SimGE(x.sim, HIGH_SIMILARITY_THRESHOLD)}}
    IN  /\ q.pc = "lookup"
        /\ Cardinality(R) = 2 /\ H = {}
        /\ Len(selectedDocuments(q.cands)) = 1

(* ------------------------- C7: citations ------------------------------- *)
\* C7: every citation built for the response pairs the file_name of a
\* selected document D with the first 150 characters of D's own best chunk,
\* also when getDocumentInfo fails for some of the selected documents.
C7_CitationPairsOwnChunk ==
    q.pc = "complete" =>
        LET sel == selectedDocuments(q.cands)
            ctx == contextChunks(q.cands)
            built == BuildSources(q.cands, q.infos)
        IN  \A k \in 1..Len(built) :
               \E j \in 1..Len(sel) :
                  /\ q.infos[j].found
                  /\ built[k].title = file[sel[j]]
                  /\ built[k].excerpt = Substring0(ctx[j].content, ExcerptLen)

(* ------------------------- C8: citations of an answer ------------------ *)
\* the answers that, lowercased, contain one of the no-information phrases
NoInformationAnswers ==
    {a \in {AnswerText(c) : c \in Answers} :
        \E p \in noInfoPhrases : Includes(ToLowerCase(a), p)}

C9_SourcesFollowAnswer ==
    (q.pc = "done" /\ q.outcome = "answered")
        => q.sources = IF q.answer \in NoInformationAnswers
                       THEN <<>>
                       ELSE BuildSources(q.cands, q.infos)

\* citations were built, the answer says in mixed case that it cannot
\* answer, and the response carries no sources
C9_CitationsSuppressed ==
    /\ q.pc = "done" /\ q.outcome = "answered"
    /\ q.answer \in NoInformationAnswers
    /\ q.answer # ToLowerCase(q.answer)
    /\ BuildSources(q.cands, q.infos) # <<>>
    /\ q.sources = <<>>

C11_NotConfiguredIsExplicit ==
    ~configured =>
        \A r \in Runs :
            (run[r].kind \in {"process", "auto"} /\ run[r].pc = "done")
                => run[r].ret \notin {"true", "false"}

C13_ResultDescending ==
    \A k \in 1..(Len(q.cands) - 1) : ~SimLess(q.cands[k].sim, q.cands[k + 1].sim)

\* the RPC returned three rows of strictly decreasing similarity
C13_RpcThreeRows ==
    /\ q.path = "rpc" /\ Len(q.cands) = 3
    /\ \A k \in 1..2 : SimGreater(q.cands[k].sim, q.cands[k + 1].sim)

\* the fallback returned four rows of strictly decreasing similarity
C13_FallbackFourRows ==
    /\ q.path = "fallback" /\ Len(q.cands) >= 4
    /\ \A k \in 1..3 : SimGreater(q.cands[k].sim, q.cands[k + 1].sim)

(* ------------------------- C14: the fallback ranking ------------------- *)
\* the vector each row of FetchedPool stands for, <<>> when its embedding is
\* not an array and does not parse to one
PoolVector ==
    [i \in 0..10 |->
        CASE i = 0 -> <<4, 3>>
          [] i = 1 -> <<1, 2>>
          [] i = 2 -> <<1, 1>>
          [] i = 3 -> <<3, -7>>
          [] i \in {4, 10} -> <<1, 2, 3>>
          [] OTHER -> <<>>]

C15_FailedChunkIsSkipped ==
    [][\A r \in Runs :
          (run[r].pc \in {"embed", "autoembed"} /\ run'[r] # run[r]) =>
              LET d == run[r].doc
                  i == run[r].i
                  n == Len(SemanticChunks(file[d]))
              IN  /\ chunks' \ chunks \subseteq {Row(d, i, SemanticChunks(file[d])[i + 1], r)}
                  /\ chunks \subseteq chunks'
                  /\ IF i + 1 < n
                     THEN run'[r].pc = run[r].pc /\ run'[r].doc = d /\ run'[r].i = i + 1
                     ELSE IF run[r].pc = "embed"
                     THEN run'[r].ret = "true" /\ run'[r].pc \in {"status", "done"}
                     ELSE run'[r].pc = "autodoc"]_vars

\* processDocument has returned true for a document of two retained chunks
\* that has the row of chunk 1 and no row of chunk 0
C15_LaterChunkStored ==
    \E r \in Runs :
        /\ run[r].kind \in {"upload", "process"} /\ run[r].ret = "true"
        /\ Len(SemanticChunks(file[run[r].doc])) = 2
        /\ {c.idx : c \in ChunksOf(run[r].doc)} = {1}

(* ------------------------- C16: structural chunks ---------------------- *)
\* C16: no structural chunk is embedded or stored: no row of document_chunks
\* holds a chunk that isLikelyStructuralChunk reports as structural, the chunk
\* an ingestion loop is about to embed is not structural, and a loop runs
\* only on a file that has a non-structural chunk.
C16_NoStructuralChunkIndexed ==
    /\ \A c \in chunks : ~IsStructural(c.content)
    /\ \A r \in Runs :
          run[r].pc \in {"embed", "autoembed"} =>
              LET f == file[run[r].doc]
              IN  /\ \E k \in 1..Len(FileChunks(f)) : ~IsStructural(FileChunks(f)[k])
                  /\ ~IsStructural(SemanticChunks(f)[run[r].i + 1])

\* a file whose first chunk is a table of contents has been ingested whole:
\* its two other chunks are stored as rows 0 and 1
C16_MixedFileIngested ==
    \E r \in Runs :
        LET d == run[r].doc
        IN  /\ run[r].kind = "upload" /\ run[r].ret = "returned"
            /\ IsStructural(FileChunks(file[d])[1])
            /\ {c.idx : c \in ChunksOf(d)} = {0, 1}
            /\ \A c \in ChunksOf(d) : ~IsStructural(c.content)

\* a file with structural chunks only has been processed: true is returned
\* and no row is stored
C16_AllStructuralFile ==
    \E r \in Runs :
        LET d == run[r].doc
        IN  /\ run[r].kind = "upload" /\ run[r].ret = "returned" /\ status[d] = "processed"
            /\ FileChunks(file[d]) # <<>> /\ SemanticChunks(file[d]) = <<>>
            /\ ChunksOf(d) = {}

(* ------------------------- C17: status of an ingested document --------- *)
\* C17: the ingestion loop (embedding and inserting chunks) runs only on a
\* document whose status is 'processed', in processDocument as called from
\* uploadDocument and in processDocumentsAutomatically.
C17_IngestsOnlyProcessed ==
    \A r \in Runs :
        (run[r].kind \in {"upload", "auto"} /\ run[r].pc \in {"embed", "autoembed"})
            => status[run[r].doc] = "processed"

(* ------------------------- C18: runs on different documents ------------ *)
\* C18: every row a processDocument run has inserted is keyed by the run's
\* own document and is the row that run inserts when it runs alone (chunk
\* idx of the document's retained chunks, each index at most once); and the
\* rows of a document that a single run works on are exactly that run's
\* rows, whatever the other runs do on other documents.
C18_RunsOnDistinctDocuments ==
    \A r \in Runs :
        run[r].kind \in {"upload", "process"} =>
            LET d == run[r].doc
                mine == {c \in chunks : c.by = r}
                alone == \A o \in Runs \ {r} :
                            run[o].kind \in {"idle", "upload", "process"} /\ run[o].doc # d
            IN  /\ \A c \in mine :
                      /\ c.doc = d
                      /\ c.idx \in 0..(Len(SemanticChunks(file[d])) - 1)
                      /\ c = Row(d, c.idx, SemanticChunks(file[d])[c.idx + 1], r)
                      /\ run[r].pc = "embed" => c.idx < run[r].i
                /\ alone => ChunksOf(d) = mine

\* two runs on different documents are both inside their loops, each with a
\* row already stored
C18_TwoLoopsInterleaved ==
    \E r1, r2 \in Runs :
        /\ r1 # r2 /\ run[r1].doc # run[r2].doc
        /\ run[r1].pc = "embed" /\ run[r2].pc = "embed"
        /\ ChunksOf(run[r1].doc) # {} /\ ChunksOf(run[r2].doc) # {}

(* ------------------------- C19: the chunk size bound ------------------- *)
\* C19: no chunk returned by splitIntoChunks is longer than chunkSize, except
\* a chunk that contains a single sentence or fragment that is itself longer
\* than chunkSize.
C19_ChunkSizeBound ==
    (pure.fn = "split" /\ pure.done /\ pure.chunkSize > pure.overlap) =>
        LET paragraphs == SplitParagraphs(NormalizeLineBreaks(pure.text))
            pieces == UNION {{splitIntoSentences(Trim(paragraphs[k]))[j] :
                                j \in 1..Len(splitIntoSentences(Trim(paragraphs[k])))} :
                             k \in 1..Len(paragraphs)}
        IN  \A k \in 1..Len(pure.chunks) :
               \/ Len(pure.chunks[k]) <= pure.chunkSize
               \/ \E x \in pieces : Len(x) > pure.chunkSize /\ Includes(pure.chunks[k], x)

(* ------------------------- C20: the overlap bound ---------------------- *)
\* C20: for adjacent chunks i and i+1, whenever chunk i is longer than
\* overlap, the text getOverlapText carries from chunk i into chunk i+1 has
\* a length > 0 and <= overlap.
C20_OverlapBound ==
    (pure.fn = "split" /\ pure.done /\ pure.chunkSize > pure.overlap) =>
        \A k \in 1..Len(pure.carry) :
            Len(pure.chunks[k]) > pure.overlap
                => Len(pure.carry[k]) > 0 /\ Len(pure.carry[k]) <= pure.overlap

(* ------------------------- C21: the fixed-width fallback --------------- *)
\* a match of /([.!?])\s+(?=[A-ZÁÉÍÓÚÑ])/ somewhere in the text
HasSentenceBoundary(text) ==
    \E p \in 1..(Len(text) - 1) :
        /\ Char(text, p) \in {".", "!", "?"}
        /\ IsWs(Char(text, p + 1))
        /\ WsRunEnd(text, p + 1) < Len(text)
        /\ IsUpper(Char(text, WsRunEnd(text, p + 1) + 1))

\* C21: a paragraph longer than chunkSize without any sentence boundary is
\* split by the fixed-width fallback into several fragments (the pieces that
\* splitIntoSentences hands to the chunk loop are the fixed-width fragments);
\* when it is longer than the fallback window it is not emitted as one
\* undivided piece.
C21_FallbackSplits ==
    (pure.fn = "split" /\ pure.done /\ pure.chunkSize > pure.overlap) =>
        LET paragraphs == SplitParagraphs(NormalizeLineBreaks(pure.text))
        IN  \A k \in 1..Len(paragraphs) :
               LET paragraph == Trim(paragraphs[k])
               IN  (Len(paragraph) > pure.chunkSize /\ Len(paragraph) > MaxFragmentSize
                    /\ ~HasSentenceBoundary(paragraph))
                   => /\ splitIntoSentences(paragraph)
                           = SelectSeq(FixedFragments(paragraph, 0), LAMBDA f : Len(f) > 0)
                      /\ \A j \in 1..Len(pure.chunks) : ~Includes(pure.chunks[j], paragraph)

(* ------------------------- C22: parameter validation ------------------- *)
\* C22: a call to splitIntoChunks with overlap >= chunkSize is rejected as a
\* caller error and produces no chunk list.
C22_OverlapValidated ==
    (pure.fn = "split" /\ pure.done /\ pure.overlap >= pure.chunkSize)
        => pure.outcome = "threw" /\ pure.chunks = <<>>

(* ------------------------- C23: nothing lost or reordered -------------- *)
\* whitespace normalization of the characters lo..hi of s: every run of
\* whitespace becomes one space, leading whitespace disappears
RECURSIVE CollapseRange(_, _, _)
CollapseRange(s, lo, hi) ==
    IF lo > hi THEN ""
    ELSE IF lo = hi
    THEN (IF ~IsWs(Char(s, lo)) THEN Char(s, lo)
          ELSE IF lo > 1 /\ ~IsWs(Char(s, lo - 1)) THEN " " ELSE "")
    ELSE LET mid == (lo + hi) \div 2
         IN  CollapseRange(s, lo, mid) \o CollapseRange(s, mid + 1, hi)

NormalizeWhitespace(s) == Trim(CollapseRange(s, 1, Len(s)))

\* the chunks without the overlap prefix carried from their predecessor,
\* joined in chunk order
RECURSIVE JoinRemainders(_, _, _)
JoinRemainders(cs, carry, k) ==
    IF k > Len(cs) THEN ""
    ELSE LET skip == IF k = 1 THEN 0 ELSE Len(carry[k - 1])
         IN  SubSeq(cs[k], skip + 1, Len(cs[k])) \o " " \o JoinRemainders(cs, carry, k + 1)

\* C23: every chunk after the first starts with the overlap text carried from
\* its predecessor, and the chunks without those prefixes, concatenated in
\* chunk order, are the original text up to whitespace normalization.
C23_NothingLostOrReordered ==
    (pure.fn = "split" /\ pure.done) =>
        /\ Len(pure.carry) = (IF pure.chunks = <<>> THEN 0 ELSE Len(pure.chunks) - 1)
        /\ \A k \in 1..Len(pure.carry) : StartsWith(pure.chunks[k + 1], pure.carry[k])
        /\ NormalizeWhitespace(JoinRemainders(pure.chunks, pure.carry, 1))
              = NormalizeWhitespace(pure.text)

\* a text of two paragraphs cut into at least three chunks, one of them
\* starting with a non-empty overlap
C23_ThreeChunksWithOverlap ==
    /\ pure.fn = "split" /\ pure.done
    /\ Len(pure.chunks) >= 3
    /\ Includes(pure.text, "\n\n")
    /\ \E k \in 1..Len(pure.carry) : Len(pure.carry[k]) > 0

(* ------------------------- C24: prose is never structural -------------- *)
\* the signals of the chunk the filter was applied to
C24_Signals == StructuralSignals(Trim(pure.chunk))

\* C24: a chunk with at least one sentence (a maximal run between '.', '!'
\* or '?') of six words or more is never reported structural, whatever the
\* contents, cover, digit and vocabulary signals are.
C24_ProseNeverStructural ==
    (pure.fn = "structural" /\ pure.done) =>
        LET text == pure.chunk
            sentenceStarts == {i \in 1..Len(text) :
                                 /\ ~IsSentenceEnd(Char(text, i))
                                 /\ (i = 1 \/ IsSentenceEnd(Char(text, i - 1)))}
            sentenceEnd(i) == CHOOSE j \in i..Len(text) :
                                 /\ \A h \in i..j : ~IsSentenceEnd(Char(text, h))
                                 /\ (j = Len(text) \/ IsSentenceEnd(Char(text, j + 1)))
        IN  (\E i \in sentenceStarts : WordCount(SubSeq(text, i, sentenceEnd(i))) >= 6)
                => pure.result = FALSE

\* a chunk with a six-word sentence that also looks like a table of
\* contents was judged
C24_ProseWithSignals ==
    /\ pure.fn = "structural" /\ pure.done
    /\ C24_Signals.hasMeaningfulSentence
    /\ C24_Signals.looksLikeToc

(* ------------------------- C25: re-processing -------------------------- *)
\* what holds of every call whatever its result: it inserts no row for a
\* document that had a chunk row when it started, a processDocument call on
\* such a document makes no download and no embedding call, and
\* processDocumentsAutomatically never queues or works on such a document
C25_NoWorkOnChunkedDocument ==
    \A r \in Runs :
        /\ \A c \in chunks : c.by = r => c.doc \notin run[r].had
        /\ (run[r].kind = "process" /\ run[r].doc \in run[r].had)
              => run[r].calls = {} /\ run[r].pc \in {"check", "done"}
        /\ run[r].kind = "auto"
              => /\ \A k \in 1..Len(run[r].queue) : run[r].queue[k] \notin run[r].had
                 /\ run[r].pc = "autoembed" => run[r].doc \notin run[r].had

C26_NoQueryWhileProcessing ==
    [][(q.pc = "send" /\ q'.pc # "send") => \A d \in Docs : status[d] # "processing"]_vars

(* ------------------------- C27: the forwarded history ------------------ *)
\* the positions of the history that are forwarded: the last two user turns,
\* without those that are system questions
C27_Forwarded ==
    LET h == pure.conversationHistory
        users == {i \in 1..Len(h) : h[i].role = "user"}
        lastTwo == {i \in users : Cardinality({j \in users : j > i}) < 2}
    IN  {i \in lastTwo : h[i].content \notin SystemQuestions}

\* C27: the messages sent are the system prompt, then the last two user turns
\* of the history without the system questions, in their original order,
\* then the current question; no assistant turn and no system question is
\* forwarded and at most two history messages are sent.
C27_OnlyRecentUserTurns ==
    (pure.fn = "history" /\ pure.done) =>
        LET h == pure.conversationHistory
            sent == pure.messages
            mid == SubSeq(sent, 2, Len(sent) - 1)
            rank(i) == Cardinality({j \in C27_Forwarded : j <= i})
        IN  /\ Len(sent) >= 2
            /\ sent[1].role = "system"
            /\ sent[Len(sent)] = [role |-> "user", content |-> pure.question]
            /\ Len(mid) <= 2
            /\ Len(mid) = Cardinality(C27_Forwarded)
            /\ \A i \in C27_Forwarded : mid[rank(i)] = [role |-> "user", content |-> h[i].content]
            /\ \A k \in 1..Len(mid) : mid[k].role = "user" /\ mid[k].content \notin SystemQuestions

\* a history with three user turns and an answer, whose last two user turns
\* are a content question and a system question: one message is forwarded
C27_SystemTurnDropped ==
    /\ pure.fn = "history" /\ pure.done
    /\ Cardinality({i \in 1..Len(pure.conversationHistory) :
                       pure.conversationHistory[i].role = "user"}) >= 3
    /\ \E i \in 1..Len(pure.conversationHistory) : pure.conversationHistory[i].role = "assistant"
    /\ Cardinality(C27_Forwarded) = 1
    /\ Len(pure.messages) = 3

(* ------------------------- C28: no document left processing ------------ *)
\* C28: once uploadDocument has created the record, whenever the call has
\* finished (returned or thrown) the status of the document is 'processed'
\* or 'error', never 'processing', and the call has returned normally only
\* if the status was set to 'processed'.
C28_UploadNeverStuck ==
    \A r \in Runs :
        (run[r].kind = "upload" /\ run[r].pc = "done" /\ run[r].doc # 0)
            => /\ status[run[r].doc] \in {"processed", "error"}
               /\ run[r].ret = "returned" => status[run[r].doc] = "processed"

(* ------------------------- C29: three-way routing ---------------------- *)
\* C29: queryChat handles a question as a greeting whenever isGreeting holds,
\* also when it contains a system keyword; as a system question exactly when
\* isGreeting fails and isSystemQuestion holds; as a content question exactly
\* when both fail. Every call has exactly one of the three routes.
C29_GreetingFirstPartition ==
    (q.pc # "idle" /\ configured) =>
        LET greeting == q.pc = "done" /\ q.outcome = "greeting"
            system == q.pc = "done" /\ q.outcome = "system"
            content == q.outcome \notin {"greeting", "system", "notConfigured"}
        IN  /\ greeting <=> q.question \in GreetingQuestions
            /\ system <=> q.question \in SystemQuestions \ GreetingQuestions
            /\ content <=> q.question \notin GreetingQuestions \cup SystemQuestions
            /\ Cardinality({b \in {"g", "s", "c"} :
                               \/ b = "g" /\ greeting
                               \/ b = "s" /\ system
                               \/ b = "c" /\ content}) = 1

\* a greeting that contains a system keyword has been answered as a greeting
\* over a corpus with processed documents
C29_GreetingWithSystemKeyword ==
    /\ q.pc = "done" /\ q.outcome = "greeting"
    /\ q.question \in GreetingQuestions \cap SystemQuestions
    /\ ProcessedCount > 0

(* ------------------------- C30: every chunk adds text ------------------ *)
\* C30: every chunk after the first holds at least one character of source
\* text beyond the overlap text carried from its predecessor: no chunk is
\* merely a copy of the end of the previous chunk.
C30_EveryChunkAddsText ==
    (pure.fn = "split" /\ pure.done /\ pure.chunkSize > pure.overlap) =>
        \A k \in 1..Len(pure.carry) :
            /\ k < Len(pure.chunks)
            /\ Len(pure.chunks[k + 1]) > Len(pure.carry[k])
====
